---- MODULE Spec2Model ----
(***************************************************************************)
(* A model of the compilers autograder: the directive parser               *)
(* (test_parser.rs), the per-test pipeline run_and_verify and the fold     *)
(* into FinalScore (runner.rs), the parallel map over the collected files  *)
(* (runner_file_utils.rs) and the score printed by run (lib.rs).           *)
(*                                                                         *)
(* Text (a line of a test file, the bytes of a child's stdout) is a        *)
(* sequence of one-character strings.                                      *)
(***************************************************************************)
EXTENDS Integers, Sequences, FiniteSets, TLC

(***************************************************************************)
(* Bounds of the model.                                                    *)
(***************************************************************************)
\* The collector returns between 0 and MaxFiles files.
MaxFiles == 2

(***************************************************************************)
(* Program constants.                                                      *)
(***************************************************************************)
I32Max == 2147483647
I32Min == (-I32Max) - 1
\* Signal numbers of libc on Linux x86-64.
SIGABRT == 6
SIGFPE == 8
SIGKILL == 9
SIGSEGV == 11
SIGUSR2 == 12

(***************************************************************************)
(* Text helpers.                                                           *)
(***************************************************************************)
Digits == <<"0", "1", "2", "3", "4", "5", "6", "7", "8", "9">>

IsDigit(c) == \E i \in 1..10 : Digits[i] = c

DigitVal(c) == (CHOOSE i \in 1..10 : Digits[i] = c) - 1

\* char::is_whitespace, for the characters that occur in the model's texts.
Whitespace == {" ", "\t", "\n", "\r"}

\* str::split_whitespace: the maximal runs of non-whitespace characters.
RECURSIVE SplitFrom(_, _, _, _)
SplitFrom(s, i, cur, acc) ==
    IF i > Len(s)
    THEN IF cur = <<>> THEN acc ELSE Append(acc, cur)
    ELSE IF s[i] \in Whitespace
         THEN SplitFrom(s, i + 1, <<>>, IF cur = <<>> THEN acc ELSE Append(acc, cur))
         ELSE SplitFrom(s, i + 1, Append(cur, s[i]), acc)

SplitWhitespace(s) == SplitFrom(s, 1, <<>>, <<>>)

\* str::lines: split at "\n", a final empty piece is dropped, and a "\r"
\* before the "\n" is stripped.
StripCr(l) ==
    IF Len(l) > 0 /\ l[Len(l)] = "\r" THEN SubSeq(l, 1, Len(l) - 1) ELSE l

RECURSIVE LinesFrom(_, _, _, _)
LinesFrom(s, i, cur, acc) ==
    IF i > Len(s)
    THEN IF cur = <<>> THEN acc ELSE Append(acc, cur)
    ELSE IF s[i] = "\n"
         THEN LinesFrom(s, i + 1, <<>>, Append(acc, StripCr(cur)))
         ELSE LinesFrom(s, i + 1, Append(cur, s[i]), acc)

Lines(s) == LinesFrom(s, 1, <<>>, <<>>)

\* The result of a fallible conversion to i32.
OkInt(n) == [ok |-> TRUE, val |-> n]
ErrInt == [ok |-> FALSE, val |-> 0]

\* i32::from_str on the digits after the sign: the value is accumulated
\* with checked arithmetic, negatively for a "-" sign, so that I32Min
\* parses and I32Max + 1 does not.
RECURSIVE ParseDigits(_, _, _, _)
ParseDigits(s, i, acc, neg) ==
    IF i > Len(s) THEN OkInt(acc)
    ELSE IF ~IsDigit(s[i]) THEN ErrInt
    ELSE LET d == DigitVal(s[i])
         IN  IF neg
             THEN IF acc >= -((I32Max - (IF d = 0 THEN 0 ELSE d - 1)) \div 10)
                  THEN ParseDigits(s, i + 1, acc * 10 - d, neg)
                  ELSE ErrInt
             ELSE IF acc <= (I32Max - d) \div 10
                  THEN ParseDigits(s, i + 1, acc * 10 + d, neg)
                  ELSE ErrInt

\* str::parse::<i32>: an optional sign, then at least one digit; no
\* surrounding whitespace is accepted.
ParseI32(s) ==
    IF Len(s) = 0 THEN ErrInt
    ELSE IF s[1] \in {"+", "-"}
         THEN IF Len(s) = 1 THEN ErrInt
              ELSE ParseDigits(s, 2, 0, s[1] = "-")
         ELSE ParseDigits(s, 1, 0, FALSE)

(***************************************************************************)
(* test_parser.rs                                                          *)
(***************************************************************************)
W_test == <<"/", "/", "t", "e", "s", "t">>
W_nope == <<"/", "/", "n", "o", "p", "e">>
W_return == <<"r", "e", "t", "u", "r", "n">>
W_divbyzero == <<"d", "i", "v", "-", "b", "y", "-", "z", "e", "r", "o">>
W_abort == <<"a", "b", "o", "r", "t">>
W_memerror == <<"m", "e", "m", "e", "r", "r", "o", "r">>
W_error == <<"e", "r", "r", "o", "r">>
W_typecheck == <<"t", "y", "p", "e", "c", "h", "e", "c", "k">>
W_compile == <<"c", "o", "m", "p", "i", "l", "e">>

\* enum TestResult
Ret(r) == [kind |-> "Ret", val |-> r]
Kind(k) == [kind |-> k, val |-> 0]

\* Result<TestResult>
OkDirective(d) == [ok |-> TRUE, dir |-> d]
ErrDirective == [ok |-> FALSE, dir |-> Kind("None")]

\* parse_line without the count of the words of a return directive.
parse_line_any_length(first_line) ==
    LET words == SplitWhitespace(first_line)
    IN  IF Len(words) < 2 THEN ErrDirective
        ELSE IF words[1] # W_test THEN ErrDirective
        ELSE IF words[2] = W_return
             THEN IF Len(words) < 3 THEN ErrDirective
                  ELSE LET int_result == ParseI32(words[3])
                       IN  IF int_result.ok
                           THEN OkDirective(Ret(int_result.val))
                           ELSE ErrDirective
        ELSE IF words[2] = W_divbyzero THEN OkDirective(Kind("DivByZero"))
        ELSE IF words[2] = W_abort THEN OkDirective(Kind("Abort"))
        ELSE IF words[2] = W_memerror THEN OkDirective(Kind("MemError"))
        ELSE IF words[2] = W_error THEN OkDirective(Kind("SourceError"))
        ELSE IF words[2] = W_typecheck THEN OkDirective(Kind("TypeCheck"))
        ELSE IF words[2] = W_compile THEN OkDirective(Kind("Compile"))
        ELSE ErrDirective

\* test_parser.rs lines 51-81.
parse_line(first_line) ==
    LET words == SplitWhitespace(first_line)
    IN  IF Len(words) < 2 THEN ErrDirective
        ELSE IF words[1] # W_test THEN ErrDirective
        ELSE IF words[2] = W_return
             THEN IF Len(words) # 3 THEN ErrDirective
                  ELSE LET int_result == ParseI32(words[3])
                       IN  IF int_result.ok
                           THEN OkDirective(Ret(int_result.val))
                           ELSE ErrDirective
        ELSE IF words[2] = W_divbyzero THEN OkDirective(Kind("DivByZero"))
        ELSE IF words[2] = W_abort THEN OkDirective(Kind("Abort"))
        ELSE IF words[2] = W_memerror THEN OkDirective(Kind("MemError"))
        ELSE IF words[2] = W_error THEN OkDirective(Kind("SourceError"))
        ELSE IF words[2] = W_typecheck THEN OkDirective(Kind("TypeCheck"))
        ELSE IF words[2] = W_compile THEN OkDirective(Kind("Compile"))
        ELSE ErrDirective

\* BufRead::read_line: the bytes up to and including the first "\n", or
\* all of them when there is none.
RECURSIVE ReadLineFrom(_, _)
ReadLineFrom(bytes, i) ==
    IF i > Len(bytes) THEN bytes
    ELSE IF bytes[i] = "\n" THEN SubSeq(bytes, 1, i)
    ELSE ReadLineFrom(bytes, i + 1)

\* get_line that reads the file to its end.
get_line_to_end(bytes) ==
    IF Len(bytes) = 0
    THEN [exit |-> TRUE, line |-> <<>>]
    ELSE [exit |-> FALSE, line |-> bytes]

\* get_line: nothing read (an empty file) ends the process with status 0.
get_line(bytes) ==
    LET input == ReadLineFrom(bytes, 1)
    IN  IF Len(input) = 0
        THEN [exit |-> TRUE, line |-> <<>>]
        ELSE [exit |-> FALSE, line |-> input]

\* get_test_result, for a file that opened and read without an I/O error:
\* "exit" when get_line ends the process, else parse_line's result.
get_test_result(bytes) ==
    LET first_line == get_line(bytes)
    IN  IF first_line.exit
        THEN [exit |-> TRUE, res |-> ErrDirective]
        ELSE [exit |-> FALSE, res |-> parse_line(first_line.line)]

(***************************************************************************)
(* Inputs: the test files, the child processes and the configuration.      *)
(***************************************************************************)
SP == <<" ">>
NL == <<"\n">>

\* The decimal text of I32Min, and of I32Max + 1.
D_I32Min == <<"-", "2", "1", "4", "7", "4", "8", "3", "6", "4", "8">>
D_TooBig == <<"2", "1", "4", "7", "4", "8", "3", "6", "4", "8">>

\* The contents a test file may have.
TestCorpus ==
    { W_test \o SP \o W_return \o SP \o <<"0">> \o NL,
      W_test \o SP \o W_return \o SP \o D_I32Min \o NL,
      W_test \o SP \o W_return \o SP \o <<"-", "1">> \o NL,
      W_test \o SP \o W_return \o SP \o <<"1">> \o NL,
      W_test \o SP \o W_divbyzero \o NL,
      W_test \o SP \o W_abort \o NL,
      W_test \o SP \o W_memerror \o NL,
      W_test \o SP \o W_error \o NL,
      W_test \o SP \o W_typecheck \o NL,
      W_test \o SP \o W_compile \o NL,
      W_nope \o SP \o W_return \o SP \o <<"1">> \o NL,
      NL \o W_test \o SP \o W_abort \o NL,
      <<>> }

\* std::process::ExitStatus of a child: an exit code, or the signal that
\* ended it.
Exited(c) == [signaled |-> FALSE, n |-> c]
Signaled(s) == [signaled |-> TRUE, n |-> s]
NoStatus == Exited(-1)

\* What a test binary may do before the deadline: the bytes it wrote to
\* stdout and how it ended.
\* PipeCapacity bounds the bytes the pipe of the child's stdout buffers
\* while nobody reads it.
PipeCapacity == 12

\* An output of more bytes than the pipe buffers, whose last line is last.
Flood(last) == [i \in 1..PipeCapacity |-> "x"] \o NL \o last \o NL

\* Fits for a pipe that is drained while the child runs.
FitsDrained(out) == TRUE

\* lines 197-206: the child's stdout is a pipe (Stdio::piped()) that is
\* read only after wait_timeout has returned Some(status), so the child
\* gets to its exit only when all it writes fits in the pipe's buffer.
Fits(out) == Len(out) <= PipeCapacity

\* No child is blocked on a write.
NoWrite == [status |-> NoStatus, out |-> <<>>]

ChildBehaviours ==
    { [status |-> Exited(0), out |-> Flood(<<"0">>)] }
    \cup
    { [status |-> Exited(0), out |-> o] :
        o \in { <<"0">> \o NL, <<"-", "1">> \o NL, <<"1">> \o NL,
                <<"7">> \o NL \o <<"1">> \o NL, <<"x">> \o NL, <<>>,
                D_I32Min \o NL, D_TooBig \o NL } }
    \cup
    { [status |-> st, out |-> <<>>] :
        st \in { Exited(1), Signaled(SIGABRT), Signaled(SIGFPE),
                 Signaled(SIGUSR2), Signaled(SIGSEGV) } }

\* A smaller choice of each, for the runs with several pipelines at once.
SmallCorpus ==
    { W_test \o SP \o W_return \o SP \o <<"0">> \o NL,
      W_test \o SP \o W_abort \o NL,
      W_test \o SP \o W_error \o NL,
      W_nope \o SP \o W_return \o SP \o <<"1">> \o NL,
      <<>> }

SmallBehaviours ==
    { [status |-> Exited(0), out |-> <<"0">> \o NL],
      [status |-> Exited(0), out |-> Flood(<<"0">>)],
      [status |-> Exited(1), out |-> <<>>],
      [status |-> Signaled(SIGABRT), out |-> <<>>] }

\* config.parallel: 0 stands for None (no -j given), n > 0 for Some(n).
ParallelChoices == {0, 1, 2}
SequentialChoices == {0, 1}

Files == 1..MaxFiles

\* The names TempDir::new can give a workspace directory.
WsIds == 1..MaxFiles

(***************************************************************************)
(* runner.rs: the values of the pipeline.                                  *)
(***************************************************************************)
\* enum ProcessResult
PR(k, v) == [kind |-> k, val |-> v]
NoPR == PR("None", 0)

\* DecodeFailure with the arms of SIGFPE and SIGUSR2 exchanged.
DecodeFailureSwapped(status) ==
    IF ~status.signaled THEN PR("Failure", status.n)
    ELSE IF status.n = SIGABRT THEN PR("SignalAbort", 0)
    ELSE IF status.n = SIGFPE THEN PR("SignalUsr2", 0)
    ELSE IF status.n = SIGUSR2 THEN PR("SigFpe", 0)
    ELSE PR("OtherSignal", status.n)

\* lines 213-222: the ProcessResult of a status that is not a success.
DecodeFailure(status) ==
    IF ~status.signaled THEN PR("Failure", status.n)
    ELSE IF status.n = SIGABRT THEN PR("SignalAbort", 0)
    ELSE IF status.n = SIGFPE THEN PR("SigFpe", 0)
    ELSE IF status.n = SIGUSR2 THEN PR("SignalUsr2", 0)
    ELSE PR("OtherSignal", status.n)

\* LastLineValue that takes the first line of the output.
FirstLineValue(out) ==
    LET ls == Lines(out)
    IN  IF Len(ls) = 0 THEN ErrInt ELSE ParseI32(ls[1])

\* lines 204-210: the value recovered from the bytes of the child's stdout,
\* the last line parsed as an i32.
LastLineValue(out) ==
    LET ls == Lines(out)
    IN  IF Len(ls) = 0 THEN ErrInt ELSE ParseI32(ls[Len(ls)])

\* Classify without the comparison of r and o.
ClassifyIgnoresValue(intended, execution) ==
    IF intended.kind = "Ret" /\ execution.kind = "Success" THEN "Passed"
    ELSE IF \/ intended.kind = "Abort" /\ execution.kind = "SignalAbort"
            \/ intended.kind = "MemError" /\ execution.kind = "SignalUsr2"
            \/ intended.kind = "DivByZero" /\ execution.kind = "SigFpe"
    THEN "Passed"
    ELSE IF execution.kind = "Timeout" THEN "TimedOut"
    ELSE "Failed"

\* Classify with the Timeout arm only for the directives that run to a
\* return value or a signal.
ClassifyTimeoutNarrow(intended, execution) ==
    IF intended.kind = "Ret" /\ execution.kind = "Success"
    THEN IF intended.val = execution.val THEN "Passed" ELSE "Failed"
    ELSE IF \/ intended.kind = "Abort" /\ execution.kind = "SignalAbort"
            \/ intended.kind = "MemError" /\ execution.kind = "SignalUsr2"
            \/ intended.kind = "DivByZero" /\ execution.kind = "SigFpe"
    THEN "Passed"
    ELSE IF /\ execution.kind = "Timeout"
            /\ intended.kind \in {"Ret", "Abort", "MemError", "DivByZero"}
    THEN "TimedOut"
    ELSE "Failed"

\* lines 232-257: the match on (intended_result, execution_result).
Classify(intended, execution) ==
    IF intended.kind = "Ret" /\ execution.kind = "Success"
    THEN IF intended.val = execution.val THEN "Passed" ELSE "Failed"
    ELSE IF \/ intended.kind = "Abort" /\ execution.kind = "SignalAbort"
            \/ intended.kind = "MemError" /\ execution.kind = "SignalUsr2"
            \/ intended.kind = "DivByZero" /\ execution.kind = "SigFpe"
    THEN "Passed"
    ELSE IF execution.kind = "Timeout" THEN "TimedOut"
    ELSE "Failed"

\* struct FinalScore
FinalScore(p, f, t) == [passed |-> p, failed |-> f, timeout |-> t]

\* FoldStep with an Err counted nowhere.
FoldStepDropsErr(acc, e) ==
    IF e = "Passed" THEN [acc EXCEPT !.passed = @ + 1]
    ELSE IF e = "TimedOut" THEN [acc EXCEPT !.timeout = @ + 1]
    ELSE IF e = "Failed" THEN [acc EXCEPT !.failed = @ + 1]
    ELSE acc

\* FoldStep that counts a pass only while nothing has failed.
FoldStepAfterFailure(acc, e) ==
    IF e = "Passed"
    THEN IF acc.failed = 0 THEN [acc EXCEPT !.passed = @ + 1] ELSE acc
    ELSE IF e = "TimedOut" THEN [acc EXCEPT !.timeout = @ + 1]
    ELSE [acc EXCEPT !.failed = @ + 1]

\* lines 281-289: one step of the fold.
FoldStep(acc, e) ==
    IF e = "Passed" THEN [acc EXCEPT !.passed = @ + 1]
    ELSE IF e = "TimedOut" THEN [acc EXCEPT !.timeout = @ + 1]
    ELSE [acc EXCEPT !.failed = @ + 1]

RECURSIVE FoldFrom(_, _, _)
FoldFrom(scores, i, acc) ==
    IF i > Len(scores) THEN acc
    ELSE FoldFrom(scores, i + 1, FoldStep(acc, scores[i]))

Fold(scores) == FoldFrom(scores, 1, FinalScore(0, 0, 0))

\* FinalScore::to_score.  passed - failed is a subtraction of usize: when
\* failed > passed it panics in a build with overflow checks and wraps to
\* 2^64 - (failed - passed) in one without.  The f32 is kept in tenths as
\* wrap * 10 * 2^64 + tenths, exactly; the rounding of f32 is not modelled.
ScoreValue(w, t) == [panic |-> FALSE, wrap |-> w, tenths |-> t]
ScorePanic == [panic |-> TRUE, wrap |-> 0, tenths |-> 0]
NoScore == [panic |-> FALSE, wrap |-> 0, tenths |-> -1000]

to_score(s) ==
    IF s.passed >= s.failed
    THEN { ScoreValue(0, 10 * (s.passed - s.failed) + s.timeout) }
    ELSE { ScorePanic,
           ScoreValue(1, 10 * (s.passed - s.failed) + s.timeout) }

(***************************************************************************)
(* The state of one run of the autograder.                                 *)
(***************************************************************************)
VARIABLES
    run,          \* where main is: "start", "built", "map", "returned",
                  \* "finished", or ended by "error", "exited", "panicked"
    parallel,     \* config.parallel
    make_status,  \* how make ended: "none" before it ran, "ok", "fail"
    c0_exists,    \* whether ./bin/c0c was found after make
    makeRuns,     \* how many times make has been run
    nfiles,       \* the number of files collect_files returned
    pc,           \* per file: where its run_and_verify call is
    intended,     \* per file: intended_result
    ws,           \* per file: the workspace its TempDir names, 0 for none
    wsLive,       \* the workspace directories that exist on disk
    a_out,        \* per workspace directory: the file whose linked program
                  \* its a.out is, 0 for no a.out
    prog,         \* per file: the file whose program its child runs, 0
                  \* for no child
    compiler,     \* per file: how the compiler ended ("none" before)
    linker,       \* per file: how gcc ended ("none" before)
    child,        \* per file: the test binary's process: "none" (not
                  \* spawned), "running", "blocked" (in a write to its
                  \* stdout), "zombie" (ended, not reaped) or "reaped"
    status_code,  \* per file: the ExitStatus wait_timeout returned
    stdout,       \* per file: the bytes to read from the child's stdout
    writing,      \* per file: what a child blocked on a write to its
                  \* stdout does once the pipe is drained
    execution,    \* per file: execution_result
    result,       \* per file: the Result<TestOutcome> of run_and_verify
    final_score,  \* the FinalScore make_and_run returns
    printed,      \* the score run prints
    script,       \* per file, in SpecFixed: the fixed answers of the
                  \* environment to its pipeline
    test_file,    \* in SpecParse: the bytes of the file given to
                  \* get_test_result
    parsed,       \* in SpecParse: what get_test_result made of them
    closures,     \* in SpecPipe, per Pipeline value: whether its prereqs
                  \* and its parallel_steps closures return Ok or Err
    next_pipeline,\* per Pipeline value: the value its next_pipeline field
                  \* holds, 0 for None
    owned,        \* the Pipeline values the caller still holds
    stack,        \* the values whose execute is running, outermost first
    at,           \* where the innermost execute is
    calls,        \* the closure calls made so far, in order
    returned      \* what the outermost execute returned

\* The variables of the specifications other than the one at hand.
pipeVars == <<closures, next_pipeline, owned, stack, at, calls, returned>>

sideVars == <<script, test_file, parsed, pipeVars>>

mainVars == <<run, parallel, make_status, c0_exists, makeRuns, nfiles, pc,
              intended, ws, wsLive, a_out, prog, compiler, linker, child,
              status_code, stdout, writing, execution, result, final_score,
              printed>>

vars == <<run, parallel, make_status, c0_exists, makeRuns, nfiles, pc,
          intended, ws, wsLive, a_out, prog, compiler, linker, child,
          status_code, stdout, writing, execution, result, final_score,
          printed, sideVars>>

runVars == <<parallel, make_status, c0_exists, makeRuns, nfiles, final_score,
            printed, sideVars>>

\* PoolSize of a pool with a thread for every file, whatever -j says.
PoolSizePerFile == MaxFiles

\* rayon's pool: num_threads(config.parallel.unwrap_or(1)).
PoolSize == IF parallel = 0 THEN 1 ELSE parallel

Collected == 1..nfiles

\* The files whose pipeline a worker is running.
InFlight == {f \in Collected : pc[f] \notin {"todo", "done", "panicked"}}

InitWith(choices) ==
    /\ run = "start"
    /\ parallel \in choices
    /\ make_status = "none"
    /\ c0_exists = FALSE
    /\ makeRuns = 0
    /\ nfiles = 0
    /\ pc = [f \in Files |-> "todo"]
    /\ intended = [f \in Files |-> Kind("None")]
    /\ ws = [f \in Files |-> 0]
    /\ wsLive = {}
    /\ a_out = [d \in WsIds |-> 0]
    /\ prog = [f \in Files |-> 0]
    /\ compiler = [f \in Files |-> "none"]
    /\ linker = [f \in Files |-> "none"]
    /\ child = [f \in Files |-> "none"]
    /\ status_code = [f \in Files |-> NoStatus]
    /\ stdout = [f \in Files |-> <<>>]
    /\ writing = [f \in Files |-> NoWrite]
    /\ execution = [f \in Files |-> NoPR]
    /\ result = [f \in Files |-> "none"]
    /\ final_score = FinalScore(0, 0, 0)
    /\ printed = NoScore

\* No script: the environment answers freely.
NoScript == [f \in Files |-> "free"]

\* get_test_result has not been called.
NotParsed == [called |-> FALSE, exit |-> FALSE, res |-> ErrDirective]

\* MaxStages bounds the Pipeline values of SpecPipe.
MaxStages == 3

Stages == 1..MaxStages

\* Result<Vec<R>>: the list a parallel_steps closure returns names its
\* stage.
OkResults(st) == [ok |-> TRUE, results |-> <<st>>]
ErrResults == [ok |-> FALSE, results |-> <<>>]
NotReturned == [ok |-> FALSE, results |-> <<0>>]

\* No Pipeline value is made: lib.rs declares the module and uses nothing
\* of it.
NoPipe ==
    /\ closures =
         [st \in Stages |-> [prereqs |-> "ok", parallel_steps |-> "ok"]]
    /\ next_pipeline = [st \in Stages |-> 0]
    /\ owned = {}
    /\ stack = <<>>
    /\ at = "unused"
    /\ calls = <<>>
    /\ returned = NotReturned

\* The runs of make_and_run call the parser from Start only.
NoParse == test_file = <<>> /\ parsed = NotParsed

Init ==
    InitWith(ParallelChoices) /\ script = NoScript /\ NoParse /\ NoPipe

(***************************************************************************)
(* make_and_run, lines 96-121: the thread pool, make, ./bin/c0c.           *)
(***************************************************************************)
\* BuildOutcome without the check of make's exit status.
BuildIgnoresMake(makeOk, c0cExists) == IF c0cExists THEN "built" ELSE "error"

\* lines 111-121: make_and_run goes on only when make succeeded and
\* ./bin/c0c is there; the Err of every other case is its return value.
BuildOutcome(makeOk, c0cExists) ==
    IF makeOk /\ c0cExists THEN "built" ELSE "error"

Build ==
    /\ run = "start"
    /\ makeRuns' = makeRuns + 1
    /\ \E makeOk \in BOOLEAN, c0cExists \in BOOLEAN :
         /\ make_status' = IF makeOk THEN "ok" ELSE "fail"
         /\ c0_exists' = c0cExists
         /\ run' = BuildOutcome(makeOk, c0cExists)
    /\ UNCHANGED <<parallel, nfiles, pc, intended, ws, wsLive, a_out, prog,
                   compiler, linker, child, status_code, stdout, execution,
                   result, final_score, printed, sideVars, writing>>

(***************************************************************************)
(* process_files_parallel, line 40: collect_files.                         *)
(***************************************************************************)
Collect ==
    /\ run = "built"
    /\ \/ /\ run' = "error"
          /\ UNCHANGED nfiles
       \/ /\ run' = "map"
          /\ nfiles' \in 0..MaxFiles
    /\ UNCHANGED <<parallel, make_status, c0_exists, makeRuns, pc, intended,
                   ws, wsLive, a_out, prog, compiler, linker, child,
                   status_code, stdout, execution, result, final_score,
                   printed, sideVars, writing>>

(***************************************************************************)
(* run_and_verify, one call per file on a worker of the pool.              *)
(***************************************************************************)
\* The call is about to return r: its locals are still in scope.
Returns(f, r) ==
    /\ pc' = [pc EXCEPT ![f] = "ret"]
    /\ result' = [result EXCEPT ![f] = r]

\* The call panics: the unwinding drops its locals, the TempDir included.
Panics(f) ==
    /\ pc' = [pc EXCEPT ![f] = "panicked"]
    /\ UNCHANGED result

StartFaults == {"none", "open", "tempdir", "runtime", "copy", "utf8"}

\* lines 125-141, up to the launch of the compiler: parse the directive,
\* create the workspace, copy the test into it, build the command line.
Start(f, corpus) ==
    /\ run = "map"
    /\ f \in Collected
    /\ pc[f] = "todo"
    /\ Cardinality(InFlight) < PoolSize
    /\ \E bytes \in corpus, fault \in StartFaults :
         LET r == get_test_result(bytes)
         IN  IF fault = "open"
             THEN \* File::open or read_line fails
                  /\ Returns(f, "Err")
                  /\ UNCHANGED <<run, intended, ws, wsLive>>
             ELSE IF r.exit
             THEN \* get_line: std::process::exit(0)
                  /\ run' = "exited"
                  /\ UNCHANGED <<pc, result, intended, ws, wsLive>>
             ELSE IF ~r.res.ok
             THEN /\ Returns(f, "Err")
                  /\ UNCHANGED <<run, intended, ws, wsLive>>
             ELSE IF fault = "tempdir"
             THEN \* TempDir::new(..).unwrap()
                  /\ Panics(f)
                  /\ UNCHANGED <<run, intended, ws, wsLive>>
             ELSE IF fault = "utf8"
             THEN \* new_test_path.to_str().unwrap(): the TempDir is
                  \* dropped by the unwinding
                  /\ Panics(f)
                  /\ UNCHANGED <<run, intended, ws, wsLive>>
             ELSE \E id \in WsIds \ wsLive :
                  /\ ws' = [ws EXCEPT ![f] = id]
                  /\ wsLive' = wsLive \cup {id}
                  /\ intended' = [intended EXCEPT ![f] = r.res.dir]
                  /\ UNCHANGED run
                  /\ IF fault \in {"runtime", "copy"}
                     THEN Returns(f, "Err")
                     ELSE /\ pc' = [pc EXCEPT ![f] = "compile"]
                          /\ UNCHANGED result
    /\ UNCHANGED <<runVars, a_out, prog, compiler, linker, child, status_code,
                   stdout, execution, writing>>

\* SourceErrorOutcome without the negation of status.success().
SourceErrorInverted(outcome) == IF outcome = "ok" THEN "Passed" ELSE "Err"

\* lines 145-152: what a SourceError test returns once the compiler ran.
SourceErrorOutcome(outcome) == IF outcome = "fail" THEN "Passed" ELSE "Err"

\* lines 139-156: the compiler has run (or could not be launched).
Compile(f) ==
    /\ run = "map"
    /\ pc[f] = "compile"
    /\ \E outcome \in {"spawnfail", "ok", "fail"} :
         /\ compiler' = [compiler EXCEPT ![f] = outcome]
         /\ IF outcome = "spawnfail" THEN Returns(f, "Err")
            ELSE IF intended[f].kind = "SourceError"
            THEN Returns(f, SourceErrorOutcome(outcome))
            ELSE IF outcome = "fail" THEN Returns(f, "Err")
            ELSE /\ pc' = [pc EXCEPT ![f] = "link"]
                 /\ UNCHANGED result
    /\ UNCHANGED <<run, runVars, a_out, prog, intended, ws, wsLive, linker,
                   child, status_code, stdout, execution, writing>>

\* WorkDir with one directory for every pipeline.
WorkDirShared(f) == CHOOSE d \in WsIds : \A e \in WsIds : d <= e

\* lines 133 and 158: new_test_path and out_path are tempdir.path().join(..),
\* so the source copy, the compiler's output and a.out are in the workspace.
WorkDir(f) == ws[f]

\* LinkProceeds without the check of the exit status.
LinkProceedsOnExit(outcome) == outcome # "spawnfail"

\* lines 185-192: the pipeline goes on only when gcc ran and succeeded.
LinkProceeds(outcome) == outcome = "ok"

\* lines 158-192: gcc has run (or could not be launched).
Link(f) ==
    /\ run = "map"
    /\ pc[f] = "link"
    /\ \E outcome \in {"spawnfail", "ok", "fail"} :
         /\ linker' = [linker EXCEPT ![f] = outcome]
         /\ a_out' = IF outcome = "ok"
                     THEN [a_out EXCEPT ![WorkDir(f)] = f]
                     ELSE a_out
         /\ IF LinkProceeds(outcome)
            THEN /\ pc' = [pc EXCEPT ![f] = "spawn"]
                 /\ UNCHANGED result
            ELSE Returns(f, "Err")
    /\ UNCHANGED <<run, runVars, prog, intended, ws, wsLive, compiler, child,
                   status_code, stdout, execution, writing>>

\* line 197: spawn the test binary with its stdout piped.
Spawn(f) ==
    /\ run = "map"
    /\ pc[f] = "spawn"
    /\ \/ /\ Returns(f, "Err")
          /\ UNCHANGED <<child, prog>>
       \/ /\ a_out[WorkDir(f)] # 0
          /\ child' = [child EXCEPT ![f] = "running"]
          /\ prog' = [prog EXCEPT ![f] = a_out[WorkDir(f)]]
          /\ pc' = [pc EXCEPT ![f] = "wait"]
          /\ UNCHANGED result
    /\ UNCHANGED <<run, runVars, a_out, intended, ws, wsLive, compiler, linker,
                   status_code, stdout, execution, writing>>

\* The test binary ends by itself.  How it ended and what it wrote is
\* drawn when the pipeline observes it, in WaitTimeout.
ChildExit(f) ==
    /\ child[f] = "running"
    /\ child' = [child EXCEPT ![f] = "zombie"]
    /\ UNCHANGED <<run, runVars, writing, a_out, prog, pc, intended, ws, wsLive,
                   compiler, linker, status_code, stdout, execution, result>>

\* The test binary writes more than the pipe buffers and blocks in the
\* write: nothing reads the pipe before the child has exited, and its read
\* end is open for as long as the call holds the Child.
ChildBlocks(f, behaviours) ==
    /\ child[f] = "running"
    /\ pc[f] \in {"wait", "kill", "ret"}
    /\ \E b \in behaviours :
         /\ ~Fits(b.out)
         /\ writing' = [writing EXCEPT ![f] = b]
    /\ child' = [child EXCEPT ![f] = "blocked"]
    /\ UNCHANGED <<run, runVars, a_out, prog, pc, intended, ws, wsLive,
                   compiler, linker, status_code, stdout, execution, result>>

\* lines 198-199: child.wait_timeout(run_timeout)?.  Some(status) reaps a
\* child that has ended; None is the deadline passing with the child still
\* running; an error returns at once.
WaitTimeout(f, behaviours) ==
    /\ run = "map"
    /\ pc[f] = "wait"
    /\ \/ /\ Returns(f, "Err")
          /\ UNCHANGED <<child, status_code, stdout>>
       \/ /\ child[f] = "zombie"
          /\ child' = [child EXCEPT ![f] = "reaped"]
          /\ \E b \in behaviours :
               /\ Fits(b.out)
               /\ status_code' = [status_code EXCEPT ![f] = b.status]
               /\ stdout' = [stdout EXCEPT ![f] = b.out]
          /\ pc' = [pc EXCEPT ![f] = "status"]
          /\ UNCHANGED result
       \/ /\ child[f] \in {"running", "blocked"}
          /\ pc' = [pc EXCEPT ![f] = "kill"]
          /\ UNCHANGED <<child, status_code, stdout, result>>
    /\ UNCHANGED <<run, runVars, a_out, prog, intended, ws, wsLive, compiler,
                   linker, execution, writing>>

\* lines 201-224 and 232-257, the Some(status) arm: read the stdout of a
\* successful child to its end, or decode the failure; then classify.
Interpret(f) ==
    /\ run = "map"
    /\ pc[f] = "status"
    /\ LET status == status_code[f]
           value == LastLineValue(stdout[f])
       IN  IF status = Exited(0)
           THEN /\ stdout' = [stdout EXCEPT ![f] = <<>>]
                /\ \/ \* the read fails, or the bytes are not UTF-8
                      /\ Returns(f, "Err")
                      /\ UNCHANGED execution
                   \/ IF value.ok
                      THEN /\ execution' =
                                [execution EXCEPT ![f] = PR("Success", value.val)]
                           /\ Returns(f, Classify(intended[f], PR("Success", value.val)))
                      ELSE /\ Returns(f, "Err")
                           /\ UNCHANGED execution
           ELSE /\ execution' = [execution EXCEPT ![f] = DecodeFailure(status)]
                /\ Returns(f, Classify(intended[f], DecodeFailure(status)))
                /\ UNCHANGED stdout
    /\ UNCHANGED <<run, runVars, a_out, prog, intended, ws, wsLive, compiler,
                   linker, child, status_code, writing>>

\* line 226: child.kill()?.
Kill(f) ==
    /\ run = "map"
    /\ pc[f] = "kill"
    /\ \/ /\ Returns(f, "Err")
          /\ UNCHANGED child
       \/ /\ child' = [child EXCEPT ![f] = "zombie"]
          /\ pc' = [pc EXCEPT ![f] = "reap"]
          /\ UNCHANGED result
    /\ UNCHANGED <<run, runVars, a_out, prog, intended, ws, wsLive, compiler,
                   linker, status_code, stdout, execution, writing>>

\* lines 227-228 and 232-257, the None arm: child.wait()?, then classify
\* ProcessResult::Timeout.
Reap(f) ==
    /\ run = "map"
    /\ pc[f] = "reap"
    /\ \/ /\ Returns(f, "Err")
          /\ UNCHANGED <<child, execution>>
       \/ /\ child' = [child EXCEPT ![f] = "reaped"]
          /\ execution' = [execution EXCEPT ![f] = PR("Timeout", 0)]
          /\ Returns(f, Classify(intended[f], PR("Timeout", 0)))
    /\ UNCHANGED <<run, runVars, a_out, prog, intended, ws, wsLive, compiler,
                   linker, status_code, stdout, writing>>

\* WorkspacesAfterDrop for a TempDir that is not deleted.
WorkspacesLeaked(f) == wsLive

\* TempDir's drop: the directories left when f's workspace is deleted.
WorkspacesAfterDrop(f) == wsLive \ {ws[f]}

\* The call returns: its locals go out of scope, the TempDir's drop deletes
\* the workspace, and the Child's drop neither kills nor reaps the process;
\* it closes the read end of the pipe, which ends the write of a blocked
\* child.
Exit(f) ==
    /\ run = "map"
    /\ pc[f] = "ret"
    /\ pc' = [pc EXCEPT ![f] = "done"]
    /\ wsLive' = WorkspacesAfterDrop(f)
    /\ a_out' = [d \in WsIds |-> IF d = ws[f] THEN 0 ELSE a_out[d]]
    /\ prog' = [prog EXCEPT ![f] = 0]
    /\ ws' = [ws EXCEPT ![f] = 0]
    /\ intended' = [intended EXCEPT ![f] = Kind("None")]
    /\ compiler' = [compiler EXCEPT ![f] = "none"]
    /\ linker' = [linker EXCEPT ![f] = "none"]
    /\ status_code' = [status_code EXCEPT ![f] = NoStatus]
    /\ stdout' = [stdout EXCEPT ![f] = <<>>]
    /\ execution' = [execution EXCEPT ![f] = NoPR]
    /\ child' = [child EXCEPT ![f] = IF @ = "blocked" THEN "running" ELSE @]
    /\ writing' = [writing EXCEPT ![f] = NoWrite]
    /\ UNCHANGED <<run, runVars, result>>

(***************************************************************************)
(* make_and_run, lines 279-291: the parallel map has ended; fold.          *)
(***************************************************************************)
\* A panic of one call is resumed in the caller once no call is running.
Finish ==
    /\ run = "map"
    /\ InFlight = {}
    /\ IF \E f \in Collected : pc[f] = "panicked"
       THEN /\ run' = "panicked"
            /\ UNCHANGED final_score
       ELSE /\ \A f \in Collected : pc[f] = "done"
            /\ final_score' = Fold([i \in Collected |-> result[i]])
            /\ run' = "returned"
    /\ UNCHANGED <<parallel, make_status, c0_exists, makeRuns, nfiles, pc,
                   intended, ws, wsLive, a_out, prog, compiler, linker,
                   child, status_code, stdout, execution, result, printed,
                   sideVars, writing>>

(***************************************************************************)
(* lib.rs, run: print s.to_score().                                        *)
(***************************************************************************)
PrintScore ==
    /\ run = "returned"
    /\ \E s \in to_score(final_score) :
         IF s.panic
         THEN /\ run' = "panicked"
              /\ UNCHANGED printed
         ELSE /\ run' = "finished"
              /\ printed' = s
    /\ UNCHANGED <<parallel, make_status, c0_exists, makeRuns, nfiles, pc,
                   intended, ws, wsLive, a_out, prog, compiler, linker,
                   child, status_code, stdout, execution, result,
                   final_score, sideVars, writing>>

(***************************************************************************)
(* main.rs, main: the exit status of the process, -1 while it runs.  An    *)
(* Err of run exits with 1, a panic of the main thread with 101, and       *)
(* process::exit(0) in get_line with 0.                                    *)
(***************************************************************************)
exit_status ==
    CASE run = "error" -> 1
      [] run = "panicked" -> 101
      [] run \in {"finished", "exited"} -> 0
      [] OTHER -> -1

(***************************************************************************)
(* Spec: a run whose pool has up to two workers, on the smaller inputs.    *)
(***************************************************************************)
Next ==
    \/ Build
    \/ Collect
    \/ \E f \in Files : Start(f, SmallCorpus)
    \/ \E f \in Files : Compile(f)
    \/ \E f \in Files : Link(f)
    \/ \E f \in Files : Spawn(f)
    \/ \E f \in Files : ChildExit(f)
    \/ \E f \in Files : ChildBlocks(f, SmallBehaviours)
    \/ \E f \in Files : WaitTimeout(f, SmallBehaviours)
    \/ \E f \in Files : Interpret(f)
    \/ \E f \in Files : Kill(f)
    \/ \E f \in Files : Reap(f)
    \/ \E f \in Files : Exit(f)
    \/ Finish
    \/ PrintScore

Spec == Init /\ [][Next]_vars

(***************************************************************************)
(* SpecSeq: a run whose pool has one worker, on every input.               *)
(***************************************************************************)
InitSeq ==
    InitWith(SequentialChoices) /\ script = NoScript /\ NoParse /\ NoPipe

NextSeq ==
    \/ Build
    \/ Collect
    \/ \E f \in Files : Start(f, TestCorpus)
    \/ \E f \in Files : Compile(f)
    \/ \E f \in Files : Link(f)
    \/ \E f \in Files : Spawn(f)
    \/ \E f \in Files : ChildExit(f)
    \/ \E f \in Files : ChildBlocks(f, ChildBehaviours)
    \/ \E f \in Files : WaitTimeout(f, ChildBehaviours)
    \/ \E f \in Files : Interpret(f)
    \/ \E f \in Files : Kill(f)
    \/ \E f \in Files : Reap(f)
    \/ \E f \in Files : Exit(f)
    \/ Finish
    \/ PrintScore

SpecSeq == InitSeq /\ [][NextSeq]_vars

(***************************************************************************)
(* SpecFixed: the run of Spec on files whose pipelines have fixed          *)
(* outcomes.  The script of a file fixes its content and what the          *)
(* compiler, gcc and the linked program do; only the scheduling is free.   *)
(***************************************************************************)
Script(bytes, c, l, exits, status, out) ==
    [bytes |-> bytes, compiler |-> c, linker |-> l, exits |-> exits,
     behaviour |-> [status |-> status, out |-> out]]

Scripts ==
    { Script(W_test \o SP \o W_return \o SP \o <<"0">> \o NL, "ok", "ok",
             TRUE, Exited(0), <<"0">> \o NL),
      Script(W_test \o SP \o W_abort \o NL, "ok", "ok",
             TRUE, Exited(1), <<>>),
      Script(W_test \o SP \o W_abort \o NL, "ok", "ok",
             TRUE, Signaled(SIGABRT), <<>>),
      Script(W_test \o SP \o W_return \o SP \o <<"0">> \o NL, "ok", "ok",
             FALSE, NoStatus, <<>>),
      Script(W_test \o SP \o W_error \o NL, "fail", "ok",
             TRUE, NoStatus, <<>>),
      Script(W_test \o SP \o W_return \o SP \o <<"0">> \o NL, "ok", "fail",
             TRUE, NoStatus, <<>>) }

\* runner.rs lines 124-258: run_and_verify as the function of its inputs
\* that one call on its own computes, every system call succeeding.
run_and_verify(sc) ==
    LET intended_result == get_test_result(sc.bytes).res.dir
        execution_result ==
            IF ~sc.exits THEN PR("Timeout", 0)
            ELSE IF sc.behaviour.status = Exited(0)
            THEN PR("Success", LastLineValue(sc.behaviour.out).val)
            ELSE DecodeFailure(sc.behaviour.status)
    IN  IF sc.compiler = "spawnfail" THEN "Err"
        ELSE IF intended_result.kind = "SourceError"
        THEN SourceErrorOutcome(sc.compiler)
        ELSE IF sc.compiler = "fail" THEN "Err"
        ELSE IF ~LinkProceeds(sc.linker) THEN "Err"
        ELSE IF /\ sc.exits
                /\ sc.behaviour.status = Exited(0)
                /\ ~LastLineValue(sc.behaviour.out).ok
        THEN "Err"
        ELSE Classify(intended_result, execution_result)

\* process_files_parallel on one thread: the results in the order of the
\* files, one call after the other.
SequentialResults ==
    [i \in 1..nfiles |-> run_and_verify(script[i])]

InitFixed ==
    /\ InitWith(ParallelChoices)
    /\ script \in [Files -> Scripts]
    /\ NoParse
    /\ NoPipe

\* The script of the program the child of f runs.
Program(f) == script[prog[f]]

FixedStart(f) == Start(f, {script[f].bytes}) /\ pc'[f] = "compile"

FixedCompile(f) == Compile(f) /\ compiler'[f] = script[f].compiler

FixedLink(f) == Link(f) /\ linker'[f] = script[f].linker

FixedSpawn(f) == Spawn(f) /\ pc'[f] = "wait"

FixedChildExit(f) == prog[f] # 0 /\ Program(f).exits /\ ChildExit(f)

FixedWaitTimeout(f) ==
    /\ prog[f] # 0
    /\ WaitTimeout(f, {Program(f).behaviour})
    /\ pc'[f] # "ret"
    /\ pc'[f] = "kill" => ~Program(f).exits

FixedInterpret(f) ==
    /\ Interpret(f)
    /\ result'[f] = "Err" => ~LastLineValue(stdout[f]).ok

FixedKill(f) == Kill(f) /\ pc'[f] = "reap"

FixedReap(f) == Reap(f) /\ result'[f] # "Err"

NextFixed ==
    \/ Build
    \/ Collect
    \/ \E f \in Files : FixedStart(f)
    \/ \E f \in Files : FixedCompile(f)
    \/ \E f \in Files : FixedLink(f)
    \/ \E f \in Files : FixedSpawn(f)
    \/ \E f \in Files : FixedChildExit(f)
    \/ \E f \in Files : FixedWaitTimeout(f)
    \/ \E f \in Files : FixedInterpret(f)
    \/ \E f \in Files : FixedKill(f)
    \/ \E f \in Files : FixedReap(f)
    \/ \E f \in Files : Exit(f)
    \/ Finish
    \/ PrintScore

SpecFixed == InitFixed /\ [][NextFixed]_vars

(***************************************************************************)
(* SpecParse: get_test_result on one file.  The file has some empty lines, *)
(* a line of up to four words, and possibly a second directive line.       *)
(***************************************************************************)
FirstWords == {W_test, W_nope}

SecondWords ==
    {W_return, W_divbyzero, W_abort, W_memerror, W_error, W_typecheck,
     W_compile, W_nope}

\* What follows the second word: nothing, or one or two more words.
Tails ==
    {<<>>, SP \o <<"5", "2">>, SP \o <<"1">>, SP \o <<"-", "1">>,
     SP \o <<"x">>, SP \o <<"1">> \o SP \o <<"2">>, SP \o D_I32Min,
     SP \o D_TooBig}

DirectiveLines ==
    {a \o SP \o b \o t : a \in FirstWords, b \in SecondWords, t \in Tails}
        \cup {W_test, <<"\t">> \o W_test \o <<"\t">> \o W_abort \o <<"\r">>}

LeadingLines == {<<>>, NL, NL \o NL, <<"\r">> \o NL}

FollowingLines == {<<>>, W_test \o SP \o W_memerror \o NL, NL}

ParseFiles ==
    {e \o l \o NL \o r :
        e \in LeadingLines, l \in DirectiveLines, r \in FollowingLines}
        \cup {<<>>, W_test \o SP \o W_abort}

InitParse ==
    /\ InitWith({0})
    /\ script = NoScript
    /\ test_file \in ParseFiles
    /\ parsed = NotParsed
    /\ NoPipe

\* get_test_result(path) on a file that opens and reads.
ParseFile ==
    /\ ~parsed.called
    /\ parsed' = LET r == get_test_result(test_file)
                 IN  [called |-> TRUE, exit |-> r.exit, res |-> r.res]
    /\ UNCHANGED <<mainVars, script, test_file, pipeVars>>

NextParse == ParseFile

SpecParse == InitParse /\ [][NextParse]_vars

(***************************************************************************)
(* SpecPipe: pipeline.rs.  Some Pipeline values are made by new, linked    *)
(* by then, and one of them is executed.                                   *)
(***************************************************************************)
Outcomes == {"ok", "err"}

\* Pipeline::new, lines 16-25, for each value: next_pipeline is None.
InitPipe ==
    /\ InitWith({0})
    /\ script = NoScript
    /\ NoParse
    /\ closures \in
         [Stages -> [prereqs : Outcomes, parallel_steps : Outcomes]]
    /\ next_pipeline = [st \in Stages |-> 0]
    /\ owned = Stages
    /\ stack = <<>>
    /\ at = "build"
    /\ calls = <<>>
    /\ returned = NotReturned

\* The value whose execute is the innermost.
Self == stack[Len(stack)]

\* lines 27-30: a.then(b) moves b into a's next_pipeline, dropping what the
\* field held, and gives a back.
Then(a, b) ==
    /\ at = "build"
    /\ a \in owned /\ b \in owned /\ a # b
    /\ next_pipeline' = [next_pipeline EXCEPT ![a] = b]
    /\ owned' = owned \ {b}
    /\ UNCHANGED <<mainVars, script, test_file, parsed, closures, stack, at,
                   calls, returned>>

\* line 32: the caller calls execute on a value it holds.
Execute(a) ==
    /\ at = "build"
    /\ a \in owned
    /\ owned' = owned \ {a}
    /\ stack' = <<a>>
    /\ at' = "prereqs"
    /\ UNCHANGED <<mainVars, script, test_file, parsed, closures,
                   next_pipeline, calls, returned>>

\* line 34: (self.prereqs)()?.
Prereqs ==
    /\ at = "prereqs"
    /\ calls' = Append(calls, <<Self, "prereqs">>)
    /\ IF closures[Self].prereqs = "ok"
       THEN /\ at' = "parallel_steps"
            /\ UNCHANGED returned
       ELSE /\ at' = "return"
            /\ returned' = ErrResults
    /\ UNCHANGED <<mainVars, script, test_file, parsed, closures,
                   next_pipeline, owned, stack>>

\* line 37: let results = (self.parallel_steps)()?.
ParallelSteps ==
    /\ at = "parallel_steps"
    /\ calls' = Append(calls, <<Self, "parallel_steps">>)
    /\ IF closures[Self].parallel_steps = "ok"
       THEN /\ at' = "next"
            /\ UNCHANGED returned
       ELSE /\ at' = "return"
            /\ returned' = ErrResults
    /\ UNCHANGED <<mainVars, script, test_file, parsed, closures,
                   next_pipeline, owned, stack>>

\* lines 40-44: the call of next.execute() when there is a next, Ok(results)
\* when there is none.
ExecuteNext ==
    /\ at = "next"
    /\ IF next_pipeline[Self] # 0
       THEN /\ stack' = Append(stack, next_pipeline[Self])
            /\ at' = "prereqs"
            /\ UNCHANGED returned
       ELSE /\ at' = "return"
            /\ returned' = OkResults(Self)
            /\ UNCHANGED stack
    /\ UNCHANGED <<mainVars, script, test_file, parsed, closures,
                   next_pipeline, owned, calls>>

\* ExecuteResult that hands on what next.execute() returned.
ExecuteResultOfNext(st, inner) == inner

\* lines 41-44: what execute of st returns once the execute of its next has
\* returned inner: the `?` hands on an Err, and an Ok is dropped for
\* Ok(results).
ExecuteResult(st, inner) == IF inner.ok THEN OkResults(st) ELSE ErrResults

\* The execute of a next returns into the execute that called it, which
\* returns in its turn.
ReturnToExecute ==
    /\ at = "return"
    /\ Len(stack) > 1
    /\ stack' = SubSeq(stack, 1, Len(stack) - 1)
    /\ returned' = ExecuteResult(stack[Len(stack) - 1], returned)
    /\ UNCHANGED <<mainVars, script, test_file, parsed, closures,
                   next_pipeline, owned, at, calls>>

\* The outermost execute returns to the caller.
ReturnToCaller ==
    /\ at = "return"
    /\ Len(stack) = 1
    /\ stack' = <<>>
    /\ at' = "done"
    /\ UNCHANGED <<mainVars, script, test_file, parsed, closures,
                   next_pipeline, owned, calls, returned>>

NextPipe ==
    \/ \E a, b \in Stages : Then(a, b)
    \/ \E a \in Stages : Execute(a)
    \/ Prereqs
    \/ ParallelSteps
    \/ ExecuteNext
    \/ ReturnToExecute
    \/ ReturnToCaller

SpecPipe == InitPipe /\ [][NextPipe]_vars

(***************************************************************************)
(* Properties.  A call of run_and_verify that is about to return           *)
(* (pc[f] = "ret") still has its directive, the statuses it saw and its    *)
(* execution_result in scope, next to the result it returns.               *)
(***************************************************************************)
AtReturn(f) == pc[f] = "ret"

\* What the fold adds for one result.
Counted(r) == FoldStep(FinalScore(0, 0, 0), r)

\* C1: a test with directive Return(r) whose binary exited 0 and whose
\* stdout gave the value o returns Passed when o = r and Failed when
\* o # r, for r zero, negative or positive.
C1_ReturnValueDecides ==
    \A f \in Files :
        (/\ AtReturn(f)
         /\ intended[f].kind = "Ret"
         /\ status_code[f] = Exited(0)
         /\ execution[f].kind = "Success")
        => result[f] = IF execution[f].val = intended[f].val
                       THEN "Passed" ELSE "Failed"

C1_Witness ==
    \E f \in Files :
        /\ AtReturn(f)
        /\ intended[f] = Ret(-1)
        /\ status_code[f] = Exited(0)
        /\ execution[f] = PR("Success", -1)
        /\ result[f] = "Passed"

\* C2: when the process outcome is Timeout the verdict is TimedOut (never
\* Passed or Failed), whatever directive the pipeline holds.
C2_TimeoutIsTimedOut ==
    \A f \in Files :
        (AtReturn(f) /\ execution[f].kind = "Timeout")
        => result[f] = "TimedOut"

C2_Witness ==
    \E f \in Files :
        /\ AtReturn(f)
        /\ intended[f].kind = "TypeCheck"
        /\ execution[f].kind = "Timeout"
        /\ child[f] = "reaped"
        /\ result[f] = "TimedOut"

\* The pairs of directive and raw exit status that pass.
PassingPair(f) ==
    \/ /\ intended[f].kind = "Ret"
       /\ status_code[f] = Exited(0)
       /\ execution[f] = PR("Success", intended[f].val)
    \/ intended[f].kind = "Abort" /\ status_code[f] = Signaled(SIGABRT)
    \/ intended[f].kind = "MemError" /\ status_code[f] = Signaled(SIGUSR2)
    \/ intended[f].kind = "DivByZero" /\ status_code[f] = Signaled(SIGFPE)

\* C3: for a binary that ended before the deadline, the verdict is Passed
\* for a matching Return and for (Abort, SIGABRT), (MemError, SIGUSR2),
\* (DivByZero, SIGFPE), and Failed for every other pair.
C3_OnlyListedPairsPass ==
    \A f \in Files :
        (AtReturn(f) /\ execution[f].kind \notin {"None", "Timeout"})
        => result[f] = IF PassingPair(f) THEN "Passed" ELSE "Failed"

C3_Witness ==
    \E f \in Files :
        /\ AtReturn(f)
        /\ intended[f] = Ret(1)
        /\ status_code[f] = Exited(1)
        /\ execution[f] = PR("Failure", 1)
        /\ result[f] = "Failed"

\* C4: with directive TypeCheck or Compile the linker is never invoked, no
\* binary is spawned, and the verdict is Passed iff the compiler succeeded.
C4_StopsAfterCompiler ==
    \A f \in Files :
        intended[f].kind \in {"TypeCheck", "Compile"}
        => /\ linker[f] = "none"
           /\ child[f] = "none"
           /\ pc[f] \notin {"link", "spawn", "wait", "status", "kill", "reap"}
           /\ AtReturn(f) /\ compiler[f] # "none"
              => (result[f] = "Passed" <=> compiler[f] = "ok")

\* C5: with directive SourceError the pipeline stops after the compiler (no
\* link, no spawn); the test is counted as passed iff the compiler exited
\* unsuccessfully, and as failed when the compiler succeeded.
C5_SourceErrorStops ==
    \A f \in Files :
        intended[f].kind = "SourceError"
        => /\ linker[f] = "none"
           /\ child[f] = "none"
           /\ pc[f] \in {"compile", "ret"}
           /\ AtReturn(f)
              => /\ Counted(result[f]).passed = 1 <=> compiler[f] = "fail"
                 /\ compiler[f] = "ok" => Counted(result[f]).failed = 1

C5_Witness ==
    \E f \in Files :
        /\ AtReturn(f)
        /\ intended[f].kind = "SourceError"
        /\ compiler[f] = "fail"
        /\ result[f] = "Passed"

\* C6: once the binary is spawned the call never returns while the child is
\* running or ended and not reaped, on any path; and Timeout is recorded
\* only after the child was killed and reaped.
C6_NoReturnBeforeReap ==
    \A f \in Files :
        /\ pc[f] \in {"ret", "done"} => child[f] \in {"none", "reaped"}
        /\ execution[f].kind = "Timeout" => child[f] = "reaped"

\* C7: an error inside one pipeline becomes a failed test; no pipeline
\* panics, so every collected file gets a verdict.
C7_NoPipelinePanics ==
    /\ \A f \in Files : pc[f] # "panicked"
    /\ \A f \in Files :
          (AtReturn(f) /\ result[f] = "Err") => Counted(result[f]).failed = 1

\* C8: a directive parse failure, the empty file included, is an error of
\* that pipeline alone; the process is never ended from inside a pipeline.
C8_ParseFailureRecovered == run # "exited"

\* C9: when make_and_run returns a FinalScore, each per-file result has
\* incremented exactly one counter, an Err the failed one, so the three
\* counts sum to the number of collected files.
C9_CountsSumToFiles ==
    run \in {"returned", "finished"}
    => /\ final_score.passed =
            Cardinality({f \in Collected : result[f] = "Passed"})
       /\ final_score.timeout =
            Cardinality({f \in Collected : result[f] = "TimedOut"})
       /\ final_score.failed =
            Cardinality({f \in Collected : result[f] \in {"Failed", "Err"}})
       /\ final_score.passed + final_score.failed + final_score.timeout = nfiles

C9_Witness ==
    /\ run = "returned"
    /\ nfiles = MaxFiles
    /\ \E f \in Collected : result[f] = "Err"
    /\ \E f \in Collected : result[f] = "Passed"
    /\ final_score.failed >= 1

\* C10: to_score yields passed - failed + 0.1 * timedOut for every triple
\* of counts, failed > passed included, without a wrap-around or a panic.
C10_ScoreIsExact ==
    /\ run = "finished"
       => printed = ScoreValue(0, 10 * final_score.passed
                                  - 10 * final_score.failed
                                  + final_score.timeout)
    /\ ~(run = "panicked" /\ \A f \in Collected : pc[f] = "done")


\* C11: no two invocations in progress have the same workspace, the linker
\* of an invocation writes a.out only into that invocation's workspace and
\* its child runs only that a.out, and the workspaces on disk are exactly
\* those of the invocations that have not yet returned: every return, on
\* whatever path, deletes the workspace of the invocation.
C11_WorkspacePerInvocation ==
    /\ \A f, g \in Files :
         (f # g /\ ws[f] # 0 /\ ws[g] # 0) => ws[f] # ws[g]
    /\ \A d \in WsIds : a_out[d] # 0 => ws[a_out[d]] = d
    /\ \A f \in Files : prog[f] \in {0, f}
    /\ wsLive = {ws[f] : f \in Files} \ {0}
    /\ \A f \in Files :
         pc[f] \in {"todo", "done", "panicked"} => ws[f] = 0

\* Two invocations hold workspaces at once: one is about to return with its
\* a.out linked, the other's child runs the a.out of its own workspace.
C11_Witness ==
    \E f, g \in Files :
        /\ f # g
        /\ pc[f] = "ret" /\ ws[f] # 0 /\ a_out[ws[f]] = f
        /\ child[g] = "running" /\ prog[g] = g /\ ws[g] # 0


\* make failed, or succeeded without leaving ./bin/c0c.
BuildFailed ==
    make_status = "fail" \/ (make_status = "ok" /\ ~c0_exists)

\* No call of run_and_verify has started.
NoPipelineBegan ==
    /\ nfiles = 0
    /\ \A f \in Files :
         /\ pc[f] = "todo"
         /\ compiler[f] = "none" /\ linker[f] = "none" /\ child[f] = "none"
         /\ result[f] = "none"

Orders(n) ==
    {p \in [1..n -> 1..n] : \A i, j \in 1..n : p[i] = p[j] => i = j}

\* C14: the score returned is the fold of the results in every order: each
\* permutation of the result list folds to the same three counts.
C14_FoldOrderIndependent ==
    run = "returned" =>
        \A p \in Orders(nfiles) :
            Fold([i \in 1..nfiles |-> result[p[i]]]) = final_score

\* A score has been folded from a list whose results differ, so that its
\* permutations are different lists.
C14_Witness ==
    /\ run = "returned"
    /\ nfiles = MaxFiles
    /\ \E f, g \in Collected : result[f] = "Passed" /\ result[g] = "Err"


\* The directive a second word names, "None" for any other word.
NamedKind(word) ==
    IF word = W_divbyzero THEN "DivByZero"
    ELSE IF word = W_abort THEN "Abort"
    ELSE IF word = W_memerror THEN "MemError"
    ELSE IF word = W_error THEN "SourceError"
    ELSE IF word = W_typecheck THEN "TypeCheck"
    ELSE IF word = W_compile THEN "Compile"
    ELSE "None"

\* The words of the line get_test_result hands to parse_line.
FirstLineWords == SplitWhitespace(ReadLineFrom(test_file, 1))

\* C15: parse_line succeeds exactly when word 0 is "//test" and word 1 is
\* "return" followed by exactly one more word that is an i32, or one of the
\* six other directive names; the directive is then Return of that integer
\* or the one named.  "//test return 52" is Return(52), "//test div-by-zero"
\* is DivByZero, and "//test return", "//test return 1 2" and
\* "//nope return 1" fail.
C15_DirectiveTable ==
    (parsed.called /\ ~parsed.exit) =>
        LET words == FirstLineWords
            isReturn == Len(words) >= 2 /\ words[2] = W_return
            valid ==
                /\ Len(words) >= 2
                /\ words[1] = W_test
                /\ IF words[2] = W_return
                   THEN Len(words) = 3 /\ ParseI32(words[3]).ok
                   ELSE NamedKind(words[2]) # "None"
        IN  /\ parsed.res.ok <=> valid
            /\ (valid /\ isReturn) =>
                   parsed.res.dir = Ret(ParseI32(words[3]).val)
            /\ (valid /\ ~isReturn) =>
                   parsed.res.dir = Kind(NamedKind(words[2]))
            /\ words = <<W_test, W_return, <<"5", "2">>>> =>
                   parsed.res = OkDirective(Ret(52))
            /\ words = <<W_test, W_divbyzero>> =>
                   parsed.res = OkDirective(Kind("DivByZero"))
            /\ words \in {<<W_test, W_return>>,
                          <<W_test, W_return, <<"1">>, <<"2">>>>,
                          <<W_nope, W_return, <<"1">>>>} =>
                   ~parsed.res.ok

\* "//test return 52" has been parsed to Return(52).
C15_Witness ==
    /\ parsed.called
    /\ test_file = W_test \o SP \o W_return \o SP \o <<"5", "2">> \o NL
    /\ parsed.res = OkDirective(Ret(52))

\* The first line of the file that is not empty; <<>> when there is none.
FirstNonEmptyLine ==
    LET ls == Lines(test_file)
        nonEmpty == {i \in 1..Len(ls) : ls[i] # <<>>}
    IN  IF nonEmpty = {} THEN <<>>
        ELSE ls[CHOOSE i \in nonEmpty : \A j \in nonEmpty : i <= j]

\* C16, as stated: the result of get_test_result is that of parse_line on
\* the first non-empty line of the file: empty lines before it and every
\* line after it change nothing.
C16_FirstNonEmptyLineDecides ==
    (parsed.called /\ FirstNonEmptyLine # <<>>) =>
        (~parsed.exit /\ parsed.res = parse_line(FirstNonEmptyLine))


\* C16, amended: the result of get_test_result on a file that is not empty
\* is that of parse_line on its first line, whatever follows it; when that
\* line is empty the result is an error, whatever follows it.
C16_FirstLineDecides ==
    (parsed.called /\ test_file # <<>>) =>
        LET first == Lines(test_file)[1]
        IN  /\ ~parsed.exit
            /\ parsed.res = parse_line(first)
            /\ first = <<>> => ~parsed.res.ok

\* A file whose directive line comes after an empty line has been parsed,
\* to an error.
C16_Witness ==
    /\ parsed.called
    /\ test_file = NL \o W_test \o SP \o W_abort \o NL
    /\ ~parsed.res.ok


\* C17: when a call interprets the exit status 0, it reads the last line of
\* the child's stdout: if that line is a base-10 i32, either the read fails
\* or the value compared with the directive is that integer, so a Return
\* directive passes exactly on it; if there is no output, or the last line
\* is not an i32, the call returns an error, which the fold counts as
\* failed, whatever the directive.
C17_StdoutValueCompared ==
    [][\A f \in Files :
         (pc[f] = "status" /\ pc'[f] = "ret" /\ status_code[f] = Exited(0))
         => LET ls == Lines(stdout[f])
                last == IF Len(ls) = 0 THEN ErrInt ELSE ParseI32(ls[Len(ls)])
            IN  IF last.ok
                THEN \/ result'[f] = "Err"
                     \/ /\ execution'[f] = PR("Success", last.val)
                        /\ intended[f].kind = "Ret" =>
                             (result'[f] = "Passed" <=>
                                 intended[f].val = last.val)
                ELSE /\ result'[f] = "Err"
                     /\ Counted(result'[f]) = FinalScore(0, 1, 0)]_vars

\* A call has interpreted the exit status 0 of a child that printed 1, and
\* passes its Return(1) test.
C17_Witness ==
    \E f \in Files :
        /\ AtReturn(f)
        /\ status_code[f] = Exited(0)
        /\ intended[f] = Ret(1)
        /\ execution[f] = PR("Success", 1)
        /\ result[f] = "Passed"

\* C18: a call whose gcc could not be launched or exited unsuccessfully
\* never spawns the test binary and returns an error, which the fold counts
\* as failed, whatever its directive.
C18_LinkFailureFails ==
    \A f \in Files :
        linker[f] \in {"spawnfail", "fail"} =>
            /\ child[f] = "none" /\ prog[f] = 0
            /\ AtReturn(f)
            /\ result[f] = "Err"
            /\ Counted(result[f]) = FinalScore(0, 1, 0)

\* gcc has exited unsuccessfully on a test whose directive is Abort.
C18_Witness ==
    \E f \in Files :
        /\ linker[f] = "fail"
        /\ intended[f] = Kind("Abort")
        /\ AtReturn(f)


\* The pool size the configuration asks for: 1 without -j.
Configured == IF parallel = 0 THEN 1 ELSE parallel

\* C19: at no time are more pipelines in progress than the configured pool
\* size, 1 when no parallelism is configured; a pipeline starts only on a
\* collected file, only while fewer than that many are in progress, and a
\* file whose pipeline has started never has it started again; when the
\* scheduler returns, every collected file has run once and has one result.
C19_OncePerFileWithinPool ==
    /\ [](/\ Cardinality(InFlight) <= Configured
          /\ \A f \in Files \ Collected : pc[f] = "todo"
          /\ run \in {"returned", "finished"} =>
                \A f \in Collected : pc[f] = "done" /\ result[f] # "none")
    /\ [][\A f \in Files :
            /\ pc[f] # "todo" => pc'[f] # "todo"
            /\ (pc[f] = "todo" /\ pc'[f] # "todo") =>
                  (f \in Collected /\ Cardinality(InFlight) < Configured)]_vars

\* A pool of two has run every file and the scheduler has returned.
C19_Witness ==
    /\ parallel = 2
    /\ nfiles = MaxFiles
    /\ run = "returned"
    /\ \A f \in Collected : pc[f] = "done"


\* The stages of the chain that starts at st, in the order of the
\* next_pipeline fields.
RECURSIVE ChainFrom(_)
ChainFrom(st) ==
    IF st = 0 THEN <<>> ELSE <<st>> \o ChainFrom(next_pipeline[st])

\* C20: the closure calls of an execute are, in chain order, the prereqs
\* and then the parallel_steps of each stage, each made only after every
\* earlier call returned Ok, so that a failed prereqs is followed by no call
\* at all; execute returns Ok with the result list of the first stage when
\* every closure of the chain returned Ok, having called them all, and the
\* error otherwise, in whatever stage it occurred.
C20_ExecuteRunsChain ==
    Len(calls) > 0 =>
        LET chain == ChainFrom(calls[1][1])
        IN  /\ \A i \in 1..Len(calls) :
                 LET k == (i + 1) \div 2
                 IN  /\ k <= Len(chain)
                     /\ calls[i] = <<chain[k], IF i % 2 = 1 THEN "prereqs"
                                               ELSE "parallel_steps">>
            /\ \A i \in 1..(Len(calls) - 1) :
                 closures[calls[i][1]][calls[i][2]] = "ok"
            /\ at = "done" =>
                 IF \A k \in 1..Len(chain) :
                        /\ closures[chain[k]].prereqs = "ok"
                        /\ closures[chain[k]].parallel_steps = "ok"
                 THEN /\ returned = OkResults(chain[1])
                      /\ Len(calls) = 2 * Len(chain)
                 ELSE /\ returned = ErrResults
                      /\ closures[calls[Len(calls)][1]]
                                 [calls[Len(calls)][2]] = "err"

\* The execute of a chain of MaxStages stages has returned Ok with the
\* results of the first, after the closures of all of them ran.
C20_Witness ==
    /\ at = "done"
    /\ Len(calls) = 2 * MaxStages
    /\ returned = OkResults(calls[1][1])


\* C21: the bytes of the child's stdout are there to read only once
\* wait_timeout has reported the exit of the child, and they are never more
\* than the pipe buffers; a child that writes more is blocked in its write,
\* is never seen to have exited, and its call, when no system call fails,
\* kills and reaps it and returns TimedOut, whatever the child would have
\* written and returned had the pipe been drained.
C21_FloodedPipeTimesOut ==
    \A f \in Files :
        /\ stdout[f] # <<>> =>
              /\ child[f] = "reaped"
              /\ status_code[f] # NoStatus
              /\ Len(stdout[f]) <= PipeCapacity
        /\ child[f] = "blocked" =>
              /\ Len(writing[f].out) > PipeCapacity
              /\ pc[f] \in {"wait", "kill", "ret"}
        /\ writing[f] # NoWrite =>
              /\ status_code[f] = NoStatus
              /\ execution[f].kind \in {"None", "Timeout"}
              /\ AtReturn(f) =>
                    IF execution[f].kind = "Timeout"
                    THEN result[f] = "TimedOut" /\ child[f] = "reaped"
                    ELSE result[f] = "Err"

\* A Return(0) test whose child would have exited 0 with the last line 0,
\* after more output than the pipe buffers, has been killed, reaped, and
\* returns TimedOut.
C21_Witness ==
    \E f \in Files :
        /\ AtReturn(f)
        /\ intended[f] = Ret(0)
        /\ writing[f].status = Exited(0)
        /\ LastLineValue(writing[f].out) = OkInt(0)
        /\ child[f] = "reaped"
        /\ result[f] = "TimedOut"

====
